---- MODULE Spec2Model ----
(***************************************************************************)
(* Student AI Assistant (src/app.py): the deterministic demo responder,    *)
(* the dispatcher that chooses between the LLM backend and the demo        *)
(* responder, and the Flashcards page's Q:/A: extraction loop.             *)
(*                                                                         *)
(* A Python str is modelled as a sequence of one-character strings, so     *)
(* that strip, lower, slicing, substring tests, re.split and str.split     *)
(* are computed character by character as Python computes them.  A value   *)
(* that may be None is modelled as a set: {} is None, {v} is the value v.  *)
(***************************************************************************)
EXTENDS Integers, Sequences, FiniteSets, TLC

VARIABLES
    llm,          \* the module-level client: None, or {"ChatGroq"}      (app.py:23,81,84)
    system_msg,   \* first argument of the last generate_response call
    user_input,   \* second argument of the last generate_response call (None or a str)
    invoked,      \* whether that call reached chain.invoke               (app.py:148)
    error,        \* None, or {str(e)} of the exception chain.invoke raised (app.py:149)
    fallback,     \* None, or {value demo_response returned inside that call}
    response,     \* the str generate_response returned
    pc,           \* "start": before the run; "loop": in the for loop of app.py:223; "done"
    blocks,       \* response.strip().split("\n"), the list the loop walks
    idx,          \* 1-based position of the loop in blocks
    q,            \* loop local q: None or {str}
    a,            \* loop local a: None or {str}
    cards,        \* loop local cards: sequence of <<question, answer>>
    shown         \* what the page rendered last

vars == <<llm, system_msg, user_input, invoked, error, fallback, response,
          pc, blocks, idx, q, a, cards, shown>>

-----------------------------------------------------------------------------
(* Optional values *)

None == {}

Some(v) == {v}

Val(o) == CHOOSE v \in o : TRUE

-----------------------------------------------------------------------------
(* Bounds of the model *)

\* user inputs are built from at most MaxFrags fragments of InputFrags
MaxFrags == 4

\* backend reply bodies of the extraction specification have at most MaxLines lines
MaxLines == 4

-----------------------------------------------------------------------------
(* Program constants *)

\* bullets[:5]
SummaryMax == 5

\* range(5)
NumCards == 5

\* sents[i][:60]
QuoteLen == 60

\* range(1, 6)
NumMcqs == 5

\* sents[:2]
ChatMax == 2

\* block[2:]
PrefixLen == 2

-----------------------------------------------------------------------------
(* Characters that have no TLA+ string escape *)

\* U+2014 EM DASH, one character
EmDash == "U+2014"

\* U+2013 EN DASH, one character
EnDash == "U+2013"

-----------------------------------------------------------------------------
(* Python str operations *)

\* the characters str.strip() removes and the regex class \s matches
Whitespace == {" ", "\t", "\n", "\r"}

Min(S) == CHOOSE x \in S : \A y \in S : x <= y

Max(S) == CHOOSE x \in S : \A y \in S : x >= y

\* s.strip()
strip(s) ==
    LET keep == {i \in 1..Len(s) : s[i] \notin Whitespace}
    IN  IF keep = {} THEN <<>> ELSE SubSeq(s, Min(keep), Max(keep))

UpperCase ==
    <<"A","B","C","D","E","F","G","H","I","J","K","L","M","N","O","P","Q","R","S","T","U",
      "V","W","X","Y","Z">>

LowerCase ==
    <<"a","b","c","d","e","f","g","h","i","j","k","l","m","n","o","p","q","r","s","t","u",
      "v","w","x","y","z">>

\* the lower-case form of each upper-case letter
LowerOf ==
    [c \in {UpperCase[k] : k \in 1..Len(UpperCase)} |->
        LowerCase[CHOOSE k \in 1..Len(UpperCase) : UpperCase[k] = c]]

\* c.lower() of one character
lower_char(c) == IF c \in DOMAIN LowerOf THEN LowerOf[c] ELSE c

\* s.lower()
lower(s) == [i \in 1..Len(s) |-> lower_char(s[i])]

\* needle in hay
Contains(needle, hay) ==
    \E i \in 0..(Len(hay) - Len(needle)) :
        \A k \in 1..Len(needle) : hay[i + k] = needle[k]

\* s.startswith(p)
startswith(s, p) == Len(s) >= Len(p) /\ SubSeq(s, 1, Len(p)) = p

\* s[:n]
Take(s, n) == SubSeq(s, 1, IF n < Len(s) THEN n ELSE Len(s))

\* s[n:]
Drop(s, n) == SubSeq(s, n + 1, Len(s))

\* sep.join(parts)
RECURSIVE join(_, _)
join(sep, parts) ==
    IF parts = <<>> THEN <<>>
    ELSE IF Len(parts) = 1 THEN parts[1]
    ELSE parts[1] \o sep \o join(sep, Tail(parts))

\* s.split("\n"): the pieces between newlines, at least one piece
RECURSIVE split_lines(_)
split_lines(s) ==
    LET nl == {i \in 1..Len(s) : s[i] = "\n"}
    IN  IF nl = {} THEN <<s>>
        ELSE <<SubSeq(s, 1, Min(nl) - 1)>> \o split_lines(Drop(s, Min(nl)))

\* the characters of the regex class [.!?]
SentenceEnd == {".", "!", "?"}

\* re.split(r'(?<=[.!?])\s+', t): the leftmost match starts at the first whitespace
\* character that follows one of . ! ? and runs to the end of that whitespace run
RECURSIVE re_split(_)
re_split(t) ==
    LET starts == {i \in 2..Len(t) : t[i - 1] \in SentenceEnd /\ t[i] \in Whitespace}
    IN  IF starts = {} THEN <<t>>
        ELSE LET i == Min(starts)
                 j == Max({k \in i..Len(t) : \A m \in i..k : t[m] \in Whitespace})
             IN  <<SubSeq(t, 1, i - 1)>> \o re_split(Drop(t, j))

Digits ==
    <<"0","1","2","3","4","5","6","7","8","9">>

\* str(n) of an int n >= 0, as the f-strings format it
RECURSIVE str_int(_)
str_int(n) ==
    IF n < 10 THEN <<Digits[n + 1]>> ELSE str_int(n \div 10) \o <<Digits[(n % 10) + 1]>>

-----------------------------------------------------------------------------
(* String literals of demo_response and generate_response *)

\* app.py:101
NoInput ==
    <<"N","o"," ","i","n","p","u","t"," ","p","r","o","v","i","d","e","d",".">>

\* app.py:109
NoSentences ==
    <<"C","o","u","l","d","n","'","t"," ","e","x","t","r","a","c","t"," ","c","l","e","a",
      "r"," ","s","e","n","t","e","n","c","e","s"," ","t","o"," ","s","u","m","m","a","r",
      "i","z","e",".">>

\* app.py:104
KwSummar ==
    <<"s","u","m","m","a","r">>

\* app.py:112
KwFlashcard ==
    <<"f","l","a","s","h","c","a","r","d">>

\* app.py:126
KwMultipleChoiceHyphen ==
    <<"m","u","l","t","i","p","l","e","-","c","h","o","i","c","e">>

\* app.py:126
KwMcq ==
    <<"m","c","q">>

\* app.py:126
KwMultipleChoiceSpace ==
    <<"m","u","l","t","i","p","l","e"," ","c","h","o","i","c","e">>

\* app.py:108
BulletPrefix ==
    <<"-"," ">>

\* app.py:117
CardQPrefix ==
    <<"W","h","a","t"," ","d","o","e","s"," ","t","h","i","s"," ","m","e","a","n",":"," ",
      "\"">>

\* app.py:117
CardQSuffix ==
    <<"\"","?">>

\* app.py:120
PlaceholderQPrefix ==
    <<"D","e","f","i","n","e"," ","k","e","y"," ","c","o","n","c","e","p","t"," ">>

\* app.py:121
PlaceholderA ==
    <<"S","h","o","r","t"," ","d","e","f","i","n","i","t","i","o","n"," ","o","r"," ","k",
      "e","y"," ","p","o","i","n","t",".">>

\* app.py:122
QTag ==
    <<"Q",":"," ">>

\* app.py:122
ATag ==
    <<"\n","A",":"," ">>

\* app.py:130, after the number
McqBody ==
    <<"."," ","E","x","a","m","p","l","e"," ","q","u","e","s","t","i","o","n"," ","a","b",
      "o","u","t"," ","t","h","e"," ","t","o","p","i","c",":","\n","A",")"," ","O","p","t",
      "i","o","n"," ","1","\n","B",")"," ","O","p","t","i","o","n"," ","2","\n","C",")"," ",
      "O","p","t","i","o","n"," ","3","\n","D",")"," ","O","p","t","i","o","n"," ","4","\n",
      "*","*","A","n","s","w","e","r",":","*","*"," ","A">>

\* app.py:137
ChatPrefix ==
    <<"D","e","m","o"," ","r","e","p","l","y"," ",EmDash," ","c","o","n","c","i","s","e",
      " ","e","x","p","l","a","n","a","t","i","o","n",":","\n">>

\* app.py:151
NotePrefix ==
    <<"\n","\n","[","N","o","t","e",":"," ","L","L","M"," ","c","a","l","l"," ","f","a","i",
      "l","e","d",":"," ">>

\* app.py:151
NoteSuffix ==
    <<"]">>

\* app.py:224
QPrefix ==
    <<"Q",":">>

\* app.py:226
APrefix ==
    <<"A",":">>

-----------------------------------------------------------------------------
(* demo_response, app.py:97-137 *)

NonEmpty(s) == s # <<>>

\* (user_input or "").strip()
trimmed(input) == strip(IF input = None THEN <<>> ELSE Val(input))

\* which branch a system message selects, in the order of the if statements
IsSummary(msg) == Contains(KwSummar, lower(msg))

IsFlashcard(msg) == Contains(KwFlashcard, lower(msg))

IsMcq(msg) ==
    \/ Contains(KwMultipleChoiceHyphen, lower(msg))
    \/ Contains(KwMcq, lower(msg))
    \/ Contains(KwMultipleChoiceSpace, lower(msg))

\* the summary branch
summary_branch(text) ==
    LET sents == re_split(text)
        bullets == Take(SelectSeq([i \in 1..Len(sents) |-> strip(sents[i])], NonEmpty),
                        SummaryMax)
    IN  IF bullets # <<>>
        THEN join(<<"\n">>, [i \in 1..Len(bullets) |-> BulletPrefix \o bullets[i]])
        ELSE NoSentences

\* q of card i (i counts from 0, as range(5) does)
card_q(sents, i) ==
    IF i < Len(sents)
    THEN CardQPrefix \o strip(Take(sents[i + 1], QuoteLen)) \o CardQSuffix
    ELSE PlaceholderQPrefix \o str_int(i + 1) \o <<".">>

\* a of card i
card_a(sents, i) ==
    IF i < Len(sents) THEN strip(sents[i + 1]) ELSE PlaceholderA

\* the flashcard branch
flashcard_branch(text) ==
    LET sents == re_split(text)
    IN  join(<<"\n", "\n">>,
             [k \in 1..NumCards |->
                 QTag \o card_q(sents, k - 1) \o ATag \o card_a(sents, k - 1)])

\* the MCQ branch
mcq_branch == join(<<"\n", "\n">>, [i \in 1..NumMcqs |-> str_int(i) \o McqBody])

\* the default chat branch
chat_branch(text) ==
    LET sents == re_split(text)
    IN  ChatPrefix \o (IF sents # <<>> THEN join(<<" ">>, Take(sents, ChatMax)) ELSE text)

\* faulty variant: the keyword branches are tried before the empty-input check
demo_response_keywords_first(msg, input) ==
    LET text == trimmed(input)
    IN  IF IsSummary(msg) THEN summary_branch(text)
        ELSE IF IsFlashcard(msg) THEN flashcard_branch(text)
        ELSE IF IsMcq(msg) THEN mcq_branch
        ELSE IF text = <<>> THEN NoInput
        ELSE chat_branch(text)

\* faulty variant: the MCQ keywords are tried before the flashcard keyword
demo_response_mcq_first(msg, input) ==
    LET text == trimmed(input)
    IN  IF text = <<>> THEN NoInput
        ELSE IF IsSummary(msg) THEN summary_branch(text)
        ELSE IF IsMcq(msg) THEN mcq_branch
        ELSE IF IsFlashcard(msg) THEN flashcard_branch(text)
        ELSE chat_branch(text)

\* faulty variant: the MCQ branch quotes the input after its blocks
demo_response_mcq_uses_input(msg, input) ==
    LET text == trimmed(input)
    IN  IF text = <<>> THEN NoInput
        ELSE IF IsSummary(msg) THEN summary_branch(text)
        ELSE IF IsFlashcard(msg) THEN flashcard_branch(text)
        ELSE IF IsMcq(msg) THEN mcq_branch \o <<"\n", "\n">> \o text
        ELSE chat_branch(text)

\* demo_response(system_msg, user_input), app.py:97-137
demo_response(msg, input) ==
    LET text == trimmed(input)
    IN  IF text = <<>> THEN NoInput
        ELSE IF IsSummary(msg) THEN summary_branch(text)
        ELSE IF IsFlashcard(msg) THEN flashcard_branch(text)
        ELSE IF IsMcq(msg) THEN mcq_branch
        ELSE chat_branch(text)

-----------------------------------------------------------------------------
(* generate_response, app.py:139-153 *)

\* the backend is a black box: chain.invoke returns some text or raises some exception
BackendReplyFlashcards ==
    <<"Q",":"," ","x","\n","A",":"," ","y">>

BackendReplyPlain ==
    <<"o","k">>

BackendReplies == {BackendReplyFlashcards, BackendReplyPlain}

ErrTimeout ==
    <<"t","i","m","e","o","u","t">>

\* str(e) of the exception raised; an exception with no arguments has the message ""
BackendErrors == {ErrTimeout, <<>>}

\* faulty variant: the test looks at whether the library was imported, not at the client
llm_available_ignores_client(client) == TRUE

\* "if llm:" (app.py:141)
llm_available(client) == client # None

\* faulty variant: one newline before the note
fallback_with_note_one_newline(demo, e) == demo \o Tail(NotePrefix) \o e \o NoteSuffix

\* app.py:151: demo_response(...) + f"\n\n[Note: LLM call failed: {e}]"
fallback_with_note(demo, e) == demo \o NotePrefix \o e \o NoteSuffix

\* generate_response(msg, input): the outcomes the call can have, one for each thing
\* the backend can do.  An outcome records whether chain.invoke was reached, the
\* message of the exception it raised, what demo_response returned, and the value
\* generate_response returned.
generate_response(msg, input) ==
    IF llm_available(llm)
    THEN {[invoked |-> TRUE, error |-> None, fallback |-> None, response |-> text] :
             text \in BackendReplies}
         \cup
         {[invoked |-> TRUE, error |-> Some(e),
           fallback |-> Some(demo_response(msg, input)),
           response |-> fallback_with_note(demo_response(msg, input), e)] :
             e \in BackendErrors}
    ELSE {[invoked |-> FALSE, error |-> None,
           fallback |-> Some(demo_response(msg, input)),
           response |-> demo_response(msg, input)]}

\* the call generate_response(msg, input) returns with outcome r
Returns(msg, input, r) ==
    /\ system_msg' = msg
    /\ user_input' = input
    /\ invoked' = r.invoked
    /\ error' = r.error
    /\ fallback' = r.fallback
    /\ response' = r.response

-----------------------------------------------------------------------------
(* Inputs *)

\* the system prompts of the five pages
\* app.py:198
ChatPrompt ==
    <<"Y","o","u","'","r","e"," ","a"," ","h","e","l","p","f","u","l"," ","t","u","t","o",
      "r",".">>

\* app.py:209
SummaryPrompt ==
    <<"S","u","m","m","a","r","i","z","e"," ","t","h","e"," ","t","e","x","t"," ","i","n",
      "t","o"," ","c","l","e","a","r"," ","b","u","l","l","e","t"," ","p","o","i","n","t",
      "s",".">>

\* app.py:220
FlashcardPrompt ==
    <<"C","r","e","a","t","e"," ","5"," ","Q","u","i","z","i","z","z","-","s","t","y","l",
      "e"," ","f","l","a","s","h","c","a","r","d","s"," ","i","n"," ","t","h","i","s"," ",
      "f","o","r","m","a","t",":","\n","Q",":"," ","[","q","u","e","s","t","i","o","n","]",
      "\n","A",":"," ","[","a","n","s","w","e","r","]","\n","O","n","l","y"," ","i","n","c",
      "l","u","d","e"," ","e","d","u","c","a","t","i","o","n","a","l"," ","c","o","n","t",
      "e","n","t",".">>

\* app.py:247
FilePrompt ==
    <<"S","u","m","m","a","r","i","z","e"," ","t","h","i","s"," ","d","o","c","u","m","e",
      "n","t"," ","f","o","r"," ","e","a","s","i","e","r"," ","r","e","v","i","s","i","o",
      "n",".">>

\* app.py:256
ExamPrompt ==
    <<"M","a","k","e"," ","5"," ","n","e","a","t"," ","m","u","l","t","i","p","l","e","-",
      "c","h","o","i","c","e"," ","q","u","e","s","t","i","o","n","s"," ","(","A",EnDash,
      "D",")"," ","w","i","t","h"," ","t","h","e"," ","c","o","r","r","e","c","t"," ","a",
      "n","s","w","e","r"," ","m","a","r","k","e","d"," ","c","l","e","a","r","l","y",".",
      " ","U","s","e"," ","c","l","e","a","n"," ","f","o","r","m","a","t","t","i","n","g",
      ".">>

PagePrompts == {ChatPrompt, SummaryPrompt, FlashcardPrompt, FilePrompt, ExamPrompt}

\* further system messages: mixed case, several keywords at once, near misses, none
MsgMcqMixedCase ==
    <<"M","c","Q">>

MsgMultipleChoiceUpper ==
    <<"M","U","L","T","I","P","L","E"," ","C","H","O","I","C","E">>

MsgSummaryFlashcards ==
    <<"S","U","M","M","A","R","Y"," ","o","f"," ","f","l","a","s","h","c","a","r","d","s">>

MsgFlashcardMcq ==
    <<"F","l","a","s","h","c","a","r","d"," ","M","C","Q">>

MsgMcqSummarize ==
    <<"m","c","q"," ","s","u","m","m","a","r","i","z","e">>

MsgTwoSpaces ==
    <<"m","u","l","t","i","p","l","e"," "," ","c","h","o","i","c","e">>

MsgSumMar ==
    <<"s","u","m"," ","m","a","r">>

MsgHyphenFlashcards ==
    <<"M","u","l","t","i","p","l","e","-","C","h","o","i","c","e"," ","F","l","a","s","h",
      "c","a","r","d","s">>

SystemMsgs ==
    PagePrompts \cup
    {<<>>, MsgMcqMixedCase, MsgMultipleChoiceUpper, MsgSummaryFlashcards, MsgFlashcardMcq,
     MsgMcqSummarize, MsgTwoSpaces, MsgSumMar, MsgHyphenFlashcards}

FragSentence ==
    <<"H","i","."," ">>

FragWord ==
    <<"a">>

FragNewline ==
    <<"\n">>

InputFrags == {FragSentence, FragWord, FragNewline}

\* the texts made of at most n fragments
RECURSIVE FragTexts(_)
FragTexts(n) ==
    IF n = 0 THEN {<<>>}
    ELSE LET shorter == FragTexts(n - 1)
         IN  shorter \cup {s \o f : s \in shorter, f \in InputFrags}

\* further texts: other sentence ends and whitespace, more than SummaryMax sentences,
\* a sentence longer than QuoteLen, a line inside a sentence that starts like a card
TextPunct ==
    <<"N","o","?","!","\t","y","e","s">>

TextSixSentences ==
    <<"a","."," ","b","!"," ","c","?"," ","d","."," ","e","."," ","f",".">>

TextLongSentence ==
    <<"0","1","2","3","4","5","6","7","8","9","0","1","2","3","4","5","6","7","8","9","0",
      "1","2","3","4","5","6","7","8","9","0","1","2","3","4","5","6","7","8","9","0","1",
      "2","3","4","5","6","7","8","9","0","1","2","3","4","5","6","7"," ","8","9"," ","t",
      "a","i","l","."," ","n","e","x","t">>

TextEmbeddedQ ==
    <<"a","\n","Q",":"," ","b">>

TextEmbeddedA ==
    <<"a","\n","A",":"," ","b","."," ","c">>

UserTexts ==
    FragTexts(MaxFrags) \cup
    {TextPunct, TextSixSentences, TextLongSentence, TextEmbeddedQ, TextEmbeddedA}

\* what a caller may pass as user_input
UserInputs == {None} \cup {Some(t) : t \in UserTexts}

\* what read_uploaded_file_to_text may return (app.py:155-185)
UnsupportedFileType ==
    <<"[","U","n","s","u","p","p","o","r","t","e","d"," ","f","i","l","e"," ","t","y","p",
      "e","]">>

FileContents == UserTexts \cup {UnsupportedFileType}

-----------------------------------------------------------------------------
(* The pages, app.py:190-259.  Every button press runs the script anew and no    *)
(* state but llm is kept between runs, so the model is one run of the script:   *)
(* from "start", one page handles its button and the run is "done".             *)

\* the run ends without entering the Flashcards loop
NoLoop ==
    /\ pc' = "done"
    /\ UNCHANGED <<blocks, idx, q, a, cards>>

\* a page whose text box is empty only warns (app.py:201,212,238,259)
Warn ==
    /\ pc = "start"
    /\ shown' = "warning"
    /\ NoLoop
    /\ UNCHANGED <<llm, system_msg, user_input, invoked, error, fallback, response>>

\* Chat page, app.py:192-201
Chat ==
    /\ pc = "start"
    /\ \E question \in UserTexts :
        /\ question # <<>>
        /\ \E r \in generate_response(ChatPrompt, Some(question)) :
              Returns(ChatPrompt, Some(question), r)
    /\ shown' = "success"
    /\ NoLoop
    /\ UNCHANGED llm

\* Summary page, app.py:203-212
Summary ==
    /\ pc = "start"
    /\ \E text \in UserTexts :
        /\ text # <<>>
        /\ \E r \in generate_response(SummaryPrompt, Some(text)) :
              Returns(SummaryPrompt, Some(text), r)
    /\ shown' = "summary"
    /\ NoLoop
    /\ UNCHANGED llm

\* Flashcards page up to the start of the loop, app.py:214-223
Flashcards ==
    /\ pc = "start"
    /\ \E topic \in UserTexts :
        /\ topic # <<>>
        /\ \E r \in generate_response(FlashcardPrompt, Some(topic)) :
              /\ Returns(FlashcardPrompt, Some(topic), r)
              /\ blocks' = split_lines(strip(r.response))
    /\ idx' = 1
    /\ q' = None
    /\ a' = None
    /\ cards' = <<>>
    /\ pc' = "loop"
    /\ shown' = "spinner"
    /\ UNCHANGED llm

\* faulty variant: "if q is not None:"
truthy_not_none(o) == o # None

\* "if q:" (app.py:228): q is neither None nor ""
truthy(o) == o # None /\ Val(o) # <<>>

\* faulty variant: q is not reset after a card is appended
loop_body_keeps_q(qv, av, cv, block) ==
    IF startswith(block, QPrefix)
    THEN [q |-> Some(strip(Drop(block, PrefixLen))), a |-> av, cards |-> cv]
    ELSE IF startswith(block, APrefix)
    THEN IF qv # None /\ Val(qv) # <<>>
         THEN [q |-> qv, a |-> None,
               cards |-> Append(cv, <<Val(qv), strip(Drop(block, PrefixLen))>>)]
         ELSE [q |-> qv, a |-> Some(strip(Drop(block, PrefixLen))), cards |-> cv]
    ELSE [q |-> qv, a |-> av, cards |-> cv]

\* the body of the loop for one block, app.py:224-230: the new values of q, a, cards
loop_body(qv, av, cv, block) ==
    IF startswith(block, QPrefix)
    THEN [q |-> Some(strip(Drop(block, PrefixLen))), a |-> av, cards |-> cv]
    ELSE IF startswith(block, APrefix)
    THEN IF truthy(qv)
         THEN [q |-> None, a |-> None,
               cards |-> Append(cv, <<Val(qv), strip(Drop(block, PrefixLen))>>)]
         ELSE [q |-> qv, a |-> Some(strip(Drop(block, PrefixLen))), cards |-> cv]
    ELSE [q |-> qv, a |-> av, cards |-> cv]

\* one iteration of the loop, app.py:223
LoopStep ==
    /\ pc = "loop"
    /\ idx <= Len(blocks)
    /\ LET after == loop_body(q, a, cards, blocks[idx])
       IN  /\ q' = after.q
           /\ a' = after.a
           /\ cards' = after.cards
    /\ idx' = idx + 1
    /\ UNCHANGED <<llm, system_msg, user_input, invoked, error, fallback, response,
                   pc, blocks, shown>>

\* after the loop, app.py:231-236
Render ==
    /\ pc = "loop"
    /\ idx > Len(blocks)
    /\ shown' = IF cards # <<>> THEN "expanders" ELSE "info"
    /\ pc' = "done"
    /\ UNCHANGED <<llm, system_msg, user_input, invoked, error, fallback, response,
                   blocks, idx, q, a, cards>>

\* File Upload page, app.py:240-248: the content is passed on unchecked
FileUpload ==
    /\ pc = "start"
    /\ \E content \in FileContents :
          \E r \in generate_response(FilePrompt, Some(content)) :
              Returns(FilePrompt, Some(content), r)
    /\ shown' = "document summary"
    /\ NoLoop
    /\ UNCHANGED llm

\* Exam Generator page, app.py:250-259
ExamGenerator ==
    /\ pc = "start"
    /\ \E input_text \in UserTexts :
        /\ input_text # <<>>
        /\ \E r \in generate_response(ExamPrompt, Some(input_text)) :
              Returns(ExamPrompt, Some(input_text), r)
    /\ shown' = "markdown"
    /\ NoLoop
    /\ UNCHANGED llm

\* generate_response called with any arguments
Call ==
    /\ pc = "start"
    /\ \E msg \in SystemMsgs, input \in UserInputs :
          \E r \in generate_response(msg, input) : Returns(msg, input, r)
    /\ shown' = "none"
    /\ NoLoop
    /\ UNCHANGED llm

-----------------------------------------------------------------------------
(* The application *)

\* after start-up (app.py:19-92) the client exists or it does not; no call was made
Init ==
    /\ llm \in {None, Some("ChatGroq")}
    /\ system_msg = <<>>
    /\ user_input = None
    /\ invoked = FALSE
    /\ error = None
    /\ fallback = None
    /\ response = <<>>
    /\ pc = "start"
    /\ blocks = <<>>
    /\ idx = 0
    /\ q = None
    /\ a = None
    /\ cards = <<>>
    /\ shown = "none"

Next ==
    \/ Warn
    \/ Chat
    \/ Summary
    \/ Flashcards
    \/ LoopStep
    \/ Render
    \/ FileUpload
    \/ ExamGenerator
    \/ Call

Spec == Init /\ [][Next]_vars

-----------------------------------------------------------------------------
(* The Flashcards loop over any reply of the backend.  The run starts where   *)
(* generate_response has returned the backend's text at app.py:220 and the    *)
(* loop of app.py:223 is about to walk its lines.                             *)

LineQx ==
    <<"Q",":"," ","x">>

LineQw ==
    <<"Q",":"," ","w">>

LineQEmpty ==
    <<"Q",":"," ">>

LineAy ==
    <<"A",":"," ","y">>

LineAEmpty ==
    <<"A",":">>

LineNote ==
    <<"n","o","t","e">>

LineIndentedQ ==
    <<" ","Q",":"," ","z">>

ReplyLines == {LineQx, LineQw, LineQEmpty, LineAy, LineAEmpty, LineNote, LineIndentedQ}

\* the sequences of at most n reply lines
RECURSIVE LineSeqs(_)
LineSeqs(n) ==
    IF n = 0 THEN {<<>>}
    ELSE LET shorter == LineSeqs(n - 1)
         IN  shorter \cup {Append(s, l) : s \in shorter, l \in ReplyLines}

ReplyBodies == {join(<<"\n">>, ls) : ls \in LineSeqs(MaxLines)}

InitExtract ==
    /\ llm = Some("ChatGroq")
    /\ system_msg = FlashcardPrompt
    /\ user_input = Some(FragWord)
    /\ invoked = TRUE
    /\ error = None
    /\ fallback = None
    /\ response \in ReplyBodies
    /\ pc = "loop"
    /\ blocks = split_lines(strip(response))
    /\ idx = 1
    /\ q = None
    /\ a = None
    /\ cards = <<>>
    /\ shown = "spinner"

NextExtract ==
    \/ LoopStep
    \/ Render

SpecExtract == InitExtract /\ [][NextExtract]_vars

-----------------------------------------------------------------------------
(* Properties *)

\* a call of generate_response has returned and demo_response was called in it
DemoCalled == fallback # None

\* the text demo_response worked on in that call
Text == trimmed(user_input)

\* the lines of a text, as a reader of the output sees them
LinesOf(out) == split_lines(out)

\* msg contains kw, letters compared without regard to case
Mentions(msg, kw) ==
    \E i \in 1..(Len(msg) - Len(kw) + 1) :
        \A k \in 1..Len(kw) : lower_char(msg[i + k - 1]) = kw[k]

\* C1: whenever demo_response is called with a user_input that is None or empty
\* after trimming, it returns "No input provided.", whatever keywords the system
\* message contains.
C1_EmptyInputFirst == (DemoCalled /\ Text = <<>>) => Val(fallback) = NoInput

\* C1 witness: a whitespace-only input under a system message with the summary keyword
C1_Witness ==
    /\ DemoCalled
    /\ user_input # None
    /\ Val(user_input) # <<>>
    /\ Text = <<>>
    /\ Mentions(system_msg, KwSummar)
    /\ Val(fallback) = NoInput

\* the branch the claim's precedence assigns to a system message
ExpectedBranch(msg) ==
    IF Mentions(msg, KwSummar) THEN "summary"
    ELSE IF Mentions(msg, KwFlashcard) THEN "flashcard"
    ELSE IF \/ Mentions(msg, KwMultipleChoiceHyphen)
            \/ Mentions(msg, KwMcq)
            \/ Mentions(msg, KwMultipleChoiceSpace) THEN "mcq"
    ELSE "chat"

\* the branch an output of demo_response visibly came from
ObservedBranch(out) ==
    IF startswith(out, BulletPrefix) THEN "summary"
    ELSE IF startswith(out, QTag) THEN "flashcard"
    ELSE IF startswith(out, <<"1", ".", " ", "E">>) THEN "mcq"
    ELSE IF startswith(out, ChatPrefix) THEN "chat"
    ELSE "other"

\* the first two sentences of a text joined by one space
FirstTwoSentences(text) ==
    LET sents == re_split(text)
    IN  IF Len(sents) = 1 THEN sents[1] ELSE sents[1] \o <<" ">> \o sents[2]

\* C2: for an input that is non-empty after trimming, the branch of demo_response is
\* the first of summary, flashcard, MCQ, chat whose keyword the system message
\* contains (letters compared without case), and the chat branch returns the prefix
\* "Demo reply -- concise explanation:\n" followed by the first two sentences joined
\* by one space.
C2_BranchPrecedence ==
    (DemoCalled /\ Text # <<>>) =>
        /\ ObservedBranch(Val(fallback)) = ExpectedBranch(system_msg)
        /\ ExpectedBranch(system_msg) = "chat" =>
               Val(fallback) = ChatPrefix \o FirstTwoSentences(Text)

\* C2 witness: a message with the flashcard and the MCQ keyword takes the flashcard
\* branch
C2_Witness ==
    /\ DemoCalled
    /\ Text # <<>>
    /\ Mentions(system_msg, KwFlashcard)
    /\ Mentions(system_msg, KwMcq)
    /\ ObservedBranch(Val(fallback)) = "flashcard"

KwSummary ==
    <<"s","u","m","m","a","r","y">>

KwSummarize ==
    <<"s","u","m","m","a","r","i","z","e">>

\* C3: under a system message containing "summary" or "summarize" and an input that
\* is non-empty after trimming, every line of the output of demo_response starts with
\* "- " and the number of lines is min(5, number of sentences).
C3_SummaryLinesAreBullets ==
    (/\ DemoCalled
     /\ Text # <<>>
     /\ Mentions(system_msg, KwSummary) \/ Mentions(system_msg, KwSummarize)) =>
        LET lines == LinesOf(Val(fallback))
            n == Len(re_split(Text))
        IN  /\ \A i \in 1..Len(lines) : startswith(lines[i], BulletPrefix)
            /\ Len(lines) = IF n < 5 THEN n ELSE 5

\* the number of lines of a text that start with a prefix
CountStarting(lines, prefix) == Cardinality({i \in 1..Len(lines) : startswith(lines[i], prefix)})

\* C4: when the flashcard branch of demo_response runs on an input that is non-empty
\* after trimming, the output has exactly 5 lines starting with "Q:" and exactly 5
\* starting with "A:", alternating, cards separated by one blank line, card i made
\* from sentence i or else from the placeholder.
C4_FiveCardLines ==
    (/\ DemoCalled
     /\ Text # <<>>
     /\ Mentions(system_msg, KwFlashcard)
     /\ ~Mentions(system_msg, KwSummar)) =>
        LET lines == LinesOf(Val(fallback))
            sents == re_split(Text)
        IN  /\ CountStarting(lines, QPrefix) = 5
            /\ CountStarting(lines, APrefix) = 5
            /\ Len(lines) = 14
            /\ \A i \in 0..4 :
                  /\ lines[3 * i + 1] =
                         <<"Q", ":", " ">> \o
                         (IF i < Len(sents)
                          THEN CardQPrefix \o strip(Take(sents[i + 1], 60)) \o CardQSuffix
                          ELSE PlaceholderQPrefix \o str_int(i + 1) \o <<".">>)
                  /\ lines[3 * i + 2] =
                         <<"A", ":", " ">> \o
                         (IF i < Len(sents) THEN strip(sents[i + 1]) ELSE PlaceholderA)
                  /\ i < 4 => lines[3 * i + 3] = <<>>

McqAnswerLine ==
    <<"*","*","A","n","s","w","e","r",":","*","*"," ","A">>

McqOptions ==
    <<"A","B","C","D">>

\* an output is 5 numbered blocks 1..5, each with options A) to D) and the answer
\* line, joined by blank lines
FiveMcqBlocks(out) ==
    LET lines == LinesOf(out)
    IN  /\ Len(lines) = 34
        /\ \A i \in 1..5 :
              LET base == 7 * (i - 1)
              IN  /\ startswith(lines[base + 1], str_int(i) \o <<".", " ">>)
                  /\ \A o \in 1..4 :
                        startswith(lines[base + 1 + o], <<McqOptions[o], ")">>)
                  /\ lines[base + 6] = McqAnswerLine
                  /\ i < 5 => lines[base + 7] = <<>>

\* C5 as stated: under any system message containing "mcq", demo_response returns
\* the same output for every user_input, and that output is 5 numbered blocks.
C5_Original ==
    (DemoCalled /\ Mentions(system_msg, KwMcq)) =>
        /\ \A u \in UserInputs : demo_response(system_msg, u) = Val(fallback)
        /\ FiveMcqBlocks(Val(fallback))

\* C5 as amended: under a system message containing "mcq" and neither "summar" nor
\* "flashcard", demo_response returns the same output for every two user inputs that
\* are non-empty after trimming, and that output is 5 numbered blocks 1..5, each with
\* options A) to D) and the line "**Answer:** A", joined by blank lines.
C5_McqIgnoresInput ==
    (/\ DemoCalled
     /\ Text # <<>>
     /\ Mentions(system_msg, KwMcq)
     /\ ~Mentions(system_msg, KwSummar)
     /\ ~Mentions(system_msg, KwFlashcard)) =>
        /\ \A u \in UserInputs :
              trimmed(u) # <<>> => demo_response(system_msg, u) = Val(fallback)
        /\ FiveMcqBlocks(Val(fallback))

\* C5 witness: the MCQ branch ran on an input of several sentences
C5_Witness ==
    /\ DemoCalled
    /\ Mentions(system_msg, KwMcq)
    /\ ~Mentions(system_msg, KwSummar)
    /\ ~Mentions(system_msg, KwFlashcard)
    /\ Len(re_split(Text)) > 1
    /\ FiveMcqBlocks(Val(fallback))

\* app.py:151, the text of the note before and after the message
NoteOpen ==
    <<"[","N","o","t","e",":"," ","L","L","M"," ","c","a","l","l"," ","f","a","i","l","e",
      "d",":"," ">>

\* C6: when the backend call raises e, generate_response returns; the value returned
\* starts with demo_response(system_msg, user_input), and what follows is exactly two
\* newlines, "[Note: LLM call failed: ", the message of e, and "]".
C6_FailureFallsBack ==
    error # None =>
        LET demo == demo_response(system_msg, user_input)
            n == Len(demo)
        IN  /\ pc # "start"
            /\ Len(response) >= n
            /\ SubSeq(response, 1, n) = demo
            /\ SubSeq(response, n + 1, Len(response)) =
                   <<"\n", "\n">> \o NoteOpen \o Val(error) \o <<"]">>

\* C6 witness: the backend timed out on a non-empty input
C6_Witness ==
    /\ error = Some(ErrTimeout)
    /\ invoked
    /\ Text # <<>>
    /\ Len(response) > Len(ErrTimeout)

\* a call of generate_response has returned
Returned == pc # "start" /\ shown # "warning"

\* C7: with no backend configured generate_response invokes no backend and returns
\* exactly demo_response(system_msg, user_input); when the backend call succeeds its
\* text is returned unchanged; the note is appended if and only if a backend call was
\* attempted and raised.
C7_NoteOnlyAfterFailure ==
    Returned =>
        LET demo == demo_response(system_msg, user_input)
        IN  /\ llm = None => ~invoked /\ error = None /\ response = demo
            /\ error # None => invoked /\ llm # None
            /\ (invoked /\ error = None) => response \in BackendReplies /\ fallback = None
            /\ invoked = (llm # None)
            /\ (/\ Len(response) > Len(demo)
                /\ SubSeq(response, 1, Len(demo)) = demo
                /\ SubSeq(response, Len(demo) + 1, Len(demo) + 3) = <<"\n", "\n", "[">>)
               => error # None

\* C7 witness: no backend, the Flashcards page got the demo response as it is
C7_Witness ==
    /\ Returned
    /\ llm = None
    /\ ~invoked
    /\ system_msg = FlashcardPrompt
    /\ Text # <<>>
    /\ response = Val(fallback)

\* the lines the loop has consumed so far
Consumed == idx - 1

IsQLine(i) == startswith(blocks[i], QPrefix)

IsALine(i) == ~IsQLine(i) /\ startswith(blocks[i], APrefix)

\* the trimmed remainder of line i after its two-character prefix
Remainder(i) == strip(SubSeq(blocks[i], 3, Len(blocks[i])))

\* the "Q:" line an "A:" line j answers: the nearest "Q:" line before j with no "A:"
\* line between the two; 0 if there is none
QuestionOf(j) ==
    LET qs == {i \in 1..(j - 1) :
                  /\ IsQLine(i)
                  /\ \A m \in (i + 1)..(j - 1) : ~IsQLine(m) /\ ~IsALine(m)}
    IN  IF qs = {} THEN 0 ELSE CHOOSE i \in qs : TRUE

\* the consumed "A:" lines that answer a "Q:" line
AnsweringLines == {j \in 1..Consumed : IsALine(j) /\ QuestionOf(j) # 0}

\* the k-th smallest element of a set of numbers
Nth(S, k) == CHOOSE x \in S : Cardinality({y \in S : y <= x}) = k

\* the records of a set J of answering lines, in the order of the lines
RecordsOf(J) ==
    [k \in 1..Cardinality(J) |->
        <<Remainder(QuestionOf(Nth(J, k))), Remainder(Nth(J, k))>>]

InLoop == pc = "loop" \/ shown \in {"expanders", "info"}

\* C8: at every point of the loop, the records emitted so far are, in the order of
\* their "A:" lines, records of "A:" lines that answer a "Q:" line: the question is the
\* trimmed remainder of the nearest "Q:" line before the "A:" line, with no other
\* "A:" line between them.  So an "A:" line with no unconsumed "Q:" before it, a "Q:"
\* line overwritten by a later "Q:" line, and lines with another prefix give no record.
C8_OnlyPairsQWithNextA ==
    InLoop => \E J \in SUBSET AnsweringLines : cards = RecordsOf(J)

\* C8 witness: a "Q:" line overwritten by a second one, which the "A:" line answers
C8_Witness ==
    /\ pc = "done"
    /\ Len(blocks) = 3
    /\ IsQLine(1) /\ IsQLine(2) /\ IsALine(3)
    /\ Remainder(1) # Remainder(2)
    /\ cards = <<<<Remainder(2), Remainder(3)>>>>

\* C9 as stated: the number of records is the number of "A:" lines preceded by a "Q:"
\* line with no "A:" line between them, whatever the remainder of the "Q:" line.
C9_Original == InLoop => Len(cards) = Cardinality(AnsweringLines)

\* C9 as amended: a "Q:" line sets the pending question to its trimmed remainder; an
\* "A:" line met while a non-empty question is pending emits one record and clears
\* the pending question, and one met while the pending question is empty emits
\* nothing; so the records are those of the "A:" lines that answer a "Q:" line whose
\* trimmed remainder is non-empty.
C9_RecordsOfNonEmptyQuestions ==
    InLoop =>
        /\ cards = RecordsOf({j \in AnsweringLines : Remainder(QuestionOf(j)) # <<>>})
        /\ (Consumed >= 1 /\ IsQLine(Consumed)) => q = Some(Remainder(Consumed))
        /\ (Consumed >= 1 /\ IsALine(Consumed) /\ QuestionOf(Consumed) # 0
                /\ Remainder(QuestionOf(Consumed)) # <<>>) =>
               /\ q = None
               /\ cards[Len(cards)] =
                      <<Remainder(QuestionOf(Consumed)), Remainder(Consumed)>>

\* C9 witness: a "Q:" line with an empty remainder, then an "A:" line, which emits
\* nothing
C9_Witness ==
    /\ pc = "done"
    /\ Len(blocks) >= 2
    /\ IsQLine(1) /\ Remainder(1) = <<>>
    /\ IsALine(2)
    /\ cards = <<>>

\* C10: with no backend configured and a topic that is non-empty after trimming, the
\* loop run over the demo response yields exactly 5 records, record i holding the
\* question and the answer demo_response made for card i, and the page never shows
\* "Demo produced no structured flashcards".
C10_DemoRoundTrip ==
    (/\ shown \in {"expanders", "info"}
     /\ llm = None
     /\ system_msg = FlashcardPrompt
     /\ Text # <<>>) =>
        /\ Len(cards) = 5
        /\ \A i \in 1..5 :
              i <= Len(cards) =>
                  cards[i] = <<card_q(re_split(Text), i - 1), card_a(re_split(Text), i - 1)>>
        /\ shown = "expanders"

====
